---- MODULE Spec2Model ----
(***************************************************************************)
(* MeetingMirror backend (src/backend/main.py): the per-meeting WebSocket  *)
(* registry, the per-meeting sentence queue with its single processor      *)
(* task, the one-shot process_transcript and audio paths, and teardown.    *)
(*                                                                         *)
(* One asyncio event loop: every action below is the code that runs        *)
(* between two suspension points (an await) of one coroutine.  Blocking    *)
(* calls run in asyncio.to_thread and are "in flight" until they return.   *)
(***************************************************************************)
EXTENDS Integers, Sequences, FiniteSets, TLC

\* ------------------------------------------------------------------ bounds
MaxConn == 2        \* WebSocket connections accepted in one run
MaxMsgs == 2        \* inbound messages received in one run

\* ------------------------------------------------------- program constants
MIN_SENTENCE_LEN_FOR_QUEUE == 5
MIN_TRANSCRIPT_LEN_FOR_GEMINI == 1

Meetings == {"m1", "m2"}
Conns == 1..MaxConn

\* ------------------------------------------------------------------- text
\* A str is a sequence of one-character strings.
Space == " "
Blank == <<" ">>
Short == <<"o", "k">>
Hello == <<" ", "h", "e", "l", "l", "o">>
World == <<"w", "o", "r", "l", "d", "s", " ">>
EmptyStr == <<>>

RECURSIVE LStrip(_)
LStrip(s) == IF s # <<>> /\ Head(s) = Space THEN LStrip(Tail(s)) ELSE s

RECURSIVE RStrip(_)
RStrip(s) ==
    IF s # <<>> /\ s[Len(s)] = Space THEN RStrip(SubSeq(s, 1, Len(s) - 1)) ELSE s

\* str.strip()
Strip(s) == RStrip(LStrip(s))

\* ---------------------------------------------------------------- dicts
\* A Python dict is a function whose DOMAIN is its key set.
Has(d, k) == k \in DOMAIN d
Put(d, k, v) == [x \in DOMAIN d \cup {k} |-> IF x = k THEN v ELSE d[x]]
Pop(d, k) == [x \in DOMAIN d \ {k} |-> d[x]]
EmptyDict == [x \in {} |-> 0]

\* ------------------------------------------------------------- messages
\* What websocket.receive_text() can deliver.  shape: the text is not JSON,
\* is JSON but not an object, or is a JSON object; isStr: the object's
\* "text" (or, for audio, "data") value is a string.
NotJson == [shape |-> "notjson", type |-> "", isStr |-> TRUE, text |-> EmptyStr]
NotObject == [shape |-> "notobject", type |-> "", isStr |-> TRUE, text |-> EmptyStr]
Obj(t, x) == [shape |-> "object", type |-> t, isStr |-> TRUE, text |-> x]
BadField(t) == [shape |-> "object", type |-> t, isStr |-> FALSE, text |-> EmptyStr]

Msgs ==
    {NotJson, NotObject}
        \cup {Obj("transcript", x) : x \in {Blank, Short, Hello, World}}
        \cup {Obj("process_transcript", x) : x \in {Blank, Hello}}
        \cup {Obj("audio", x) : x \in {EmptyStr, Short}}
        \cup {Obj("other", Hello)}
        \cup {BadField(t) : t \in {"transcript", "process_transcript", "audio"}}

\* ------------------------------------------------------ external results
\* analyze_transcript: a non-empty feedback text, None, or an exception.
FEEDBACK == <<"O", "K", "!">>
HEARD == <<"h", "e", "a", "r", "d">>
OkRes(x) == [k |-> "ok", v |-> x]
NoneRes == [k |-> "none", v |-> EmptyStr]
RaiseRes == [k |-> "raise", v |-> EmptyStr]

\* analyze_transcript(t): without an API key _get_model() is None and the
\* result is None; with one, the model's text, None, or an exception raised
\* outside its try block.
AnalyzeOutcomes(key) == IF key THEN {OkRes(FEEDBACK), NoneRes, RaiseRes} ELSE {NoneRes}
\* transcribe_audio: a stripped non-empty text or None.
GroqOutcomes == {OkRes(HEARD), NoneRes}
\* transcribe_audio_gemini: the same, None without an API key.
GeminiTranscribeOutcomes(key) == IF key THEN {OkRes(HEARD), NoneRes} ELSE {NoneRes}

VARIABLES
    has_gemini,                  \* bool(os.environ.get("GEMINI_API_KEY"))
    active_connections,          \* dict meeting -> set of connections
    meeting_transcript_buffers,  \* dict meeting -> list of str
    coaching_queue,              \* dict meeting -> list object (an id of lists)
    lists,                       \* the list objects: Seq of (Seq of str)
    coaching_tasks,              \* dict meeting -> task (an index of tasks)
    tasks,                       \* every task created: Seq of records
    handler,                     \* per connection: the websocket_coaching coroutine
    nconn,                       \* connections accepted so far
    closed,                      \* connections whose peer has gone
    orphans,                     \* per meeting: to_thread calls whose task was cancelled
    outbox,                      \* per connection: the payload last delivered to it
    notices,                     \* per connection: how many no-credentials notices it was delivered
    nmsgs,                       \* messages received so far
    appended,                    \* per meeting: sentences appended to the current buffer
    discarded,                   \* per meeting: a last disconnect has dropped a non-empty buffer
    enq,                         \* per meeting: sentences appended to the current queue
    ev,                          \* per meeting: processor events on the current queue
    raw,                         \* parse_structured_feedback: the lines of raw
    result,                      \* parse_structured_feedback: what it returned
    now,                         \* _process_transcript_sync called alone: the clock
    calls                        \* _process_transcript_sync called alone: the calls made

\* The variables of the functions checked on their own; the server leaves
\* them alone.
fvars == <<raw, result, now, calls>>

vars ==
    <<has_gemini, active_connections, meeting_transcript_buffers, coaching_queue,
      lists, coaching_tasks, tasks, handler, nconn, closed, orphans, outbox, notices,
      nmsgs, appended, discarded, enq, ev>>

\* An outbound payload: kind names the fixed text or the envelope, text is the
\* feedback or the heard transcript, transcript the "transcript" key ("" absent).
Payload(k, m, x, t) == [kind |-> k, m |-> m, text |-> x, transcript |-> t]
NoPayload == Payload("none", "", EmptyStr, EmptyStr)

\* A coroutine in _send_to_meeting holds bc, the endpoints of its snapshot
\* list(active_connections[meeting_id]) not yet sent to, and out, the payload;
\* failed: a send_text of this broadcast has raised.
IdleHandler ==
    [pc |-> "idle", m |-> "", bc |-> {}, failed |-> FALSE, out |-> NoPayload,
     text |-> EmptyStr, task |-> 0]
NewTask(m) ==
    [pc |-> "start", m |-> m, queue |-> 0, sentence |-> EmptyStr, bc |-> {},
     failed |-> FALSE, out |-> NoPayload, cancel |-> FALSE]

\* ---------------------------------------------------------- object life
\* Tasks and lists are objects: one lives while something refers to it.  A
\* finished task nothing refers to, and a list no dict entry and no running
\* processor refers to, are gone; their slots are free for the next object.
FreeTask ==
    [pc |-> "free", m |-> "", queue |-> 0, sentence |-> EmptyStr, bc |-> {},
     failed |-> FALSE, out |-> NoPayload, cancel |-> FALSE]

Running(task) == task.pc \notin {"free", "done"}

TaskRefs(ct, hs) == {ct[m] : m \in DOMAIN ct} \cup {hs[c].task : c \in DOMAIN hs}

GcTasks(ts, ct, hs) ==
    [i \in DOMAIN ts |->
        IF ts[i].pc = "done" /\ i \notin TaskRefs(ct, hs) THEN FreeTask ELSE ts[i]]

ListRefs(cq, ts) ==
    {cq[m] : m \in DOMAIN cq} \cup {ts[i].queue : i \in {j \in DOMAIN ts : Running(ts[j])}}

GcLists(ls, cq, ts) ==
    [i \in DOMAIN ls |-> IF i \in ListRefs(cq, ts) THEN ls[i] ELSE <<>>]

\* The heap after a step that leaves the tasks ts, the lists ls and the dicts
\* cq (coaching_queue), ct (coaching_tasks) and the handlers hs.
Heap(ts, ls, cq, ct, hs) ==
    /\ tasks' = GcTasks(ts, ct, hs)
    /\ lists' = GcLists(ls, cq, GcTasks(ts, ct, hs))

Least(S) == CHOOSE i \in S : \A j \in S : i <= j

\* The slot of a new object.
NewTaskSlot(ts) ==
    LET free == {i \in DOMAIN ts : ts[i].pc = "free"}
    IN  IF free = {} THEN Len(ts) + 1 ELSE Least(free)

NewListSlot(ls, cq, ts) ==
    LET free == DOMAIN ls \ ListRefs(cq, ts)
    IN  IF free = {} THEN Len(ls) + 1 ELSE Least(free)

Store(seq, i, v) == IF i \in DOMAIN seq THEN [seq EXCEPT ![i] = v] ELSE Append(seq, v)

ServerInit ==
    /\ has_gemini \in BOOLEAN
    /\ active_connections = EmptyDict
    /\ meeting_transcript_buffers = EmptyDict
    /\ coaching_queue = EmptyDict
    /\ lists = <<>>
    /\ coaching_tasks = EmptyDict
    /\ tasks = <<>>
    /\ handler = [c \in Conns |-> IdleHandler]
    /\ nconn = 0
    /\ closed = {}
    /\ orphans = [m \in Meetings |-> 0]
    /\ outbox = [c \in Conns |-> NoPayload]
    /\ notices = [c \in Conns |-> 0]
    /\ nmsgs = 0
    /\ appended = [m \in Meetings |-> <<>>]
    /\ discarded = [m \in Meetings |-> FALSE]
    /\ enq = [m \in Meetings |-> <<>>]
    /\ ev = [m \in Meetings |-> <<>>]

\* No function is being checked on its own.
FunctionsIdle ==
    /\ raw = <<>>
    /\ result = <<>>
    /\ now = 0
    /\ calls = <<>>

Init == ServerInit /\ FunctionsIdle

\* ------------------------------------------------------------ broadcast
\* _send_to_meeting: the snapshot list(active_connections[meeting_id]), empty
\* when the meeting has no entry.
Snapshot(conns, m) == IF Has(conns, m) THEN conns[m] ELSE {}

\* One `await ws.send_text(message)`: delivered unless the peer has gone, in
\* which case the exception is swallowed (except Exception: pass).
Deliver(w, payload) ==
    /\ outbox' = IF w \in closed THEN outbox ELSE [outbox EXCEPT ![w] = payload]
    /\ notices' = IF w \notin closed /\ payload.kind = "add_key"
                  THEN [notices EXCEPT ![w] = @ + 1]
                  ELSE notices

\* The endpoints still to send to after the send to w (ok: it did not raise).
RemainingAbort(bc, w, ok) == IF ok THEN bc \ {w} ELSE {}
Remaining(bc, w, ok) == bc \ {w}

\* ------------------------------------------------------------ the thread
\* _process_transcript_sync: analyze_transcript is called unless the stripped
\* transcript is empty or shorter than MIN_TRANSCRIPT_LEN_FOR_GEMINI.
CallsOracleLong(text) == Len(Strip(text)) >= MIN_SENTENCE_LEN_FOR_QUEUE
CallsOracle(text) ==
    Strip(text) # EmptyStr /\ Len(Strip(text)) >= MIN_TRANSCRIPT_LEN_FOR_GEMINI

ProcessTranscriptSyncOutcomes(text, key) ==
    IF CallsOracle(text) THEN AnalyzeOutcomes(key) ELSE {NoneRes}

\* ------------------------------------------------------ queue processor
Event(k, x) == [k |-> k, s |-> x]

\* `if not sentence or not sentence.strip(): continue` after each pop(0).
RECURSIVE DropBlank(_)
DropBlank(q) ==
    IF q # <<>> /\ Strip(Head(q)) = EmptyStr THEN DropBlank(Tail(q)) ELSE q

\* `while queue:` is false.
QueueExhaustedEarly(q) == Len(q) <= 1
QueueExhausted(q) == q = <<>>

\* queue.pop(0): the sentence taken.
PoppedLast(q) == q[Len(q)]
Popped(q) == Head(q)

\* From the head of `while queue:` to the next await (to_thread) or to the
\* return after coaching_tasks.pop(meeting_id, None).  qid: the list the local
\* `queue` names; e: the meeting's events so far in this step.
WorkerLoop(t, qid, e) ==
    LET m == tasks[t].m
        q == DropBlank(lists[qid])
    IN  IF QueueExhausted(q)
        THEN /\ Heap([tasks EXCEPT ![t] =
                        [@ EXCEPT !.pc = "done", !.queue = 0, !.sentence = EmptyStr,
                                  !.bc = {}, !.failed = FALSE, !.out = NoPayload]],
                     [lists EXCEPT ![qid] = q],
                     coaching_queue, Pop(coaching_tasks, m), handler)
             /\ coaching_tasks' = Pop(coaching_tasks, m)
             /\ ev' = [ev EXCEPT ![m] = e]
        ELSE /\ Heap([tasks EXCEPT ![t] =
                        [@ EXCEPT !.pc = "thread", !.queue = qid, !.sentence = Popped(q),
                                  !.bc = {}, !.failed = FALSE, !.out = NoPayload]],
                     [lists EXCEPT ![qid] = Tail(q)],
                     coaching_queue, coaching_tasks, handler)
             /\ coaching_tasks' = coaching_tasks
             /\ ev' = [ev EXCEPT ![m] = Append(e, Event("call", Popped(q)))]

\* The task's first step: queue = coaching_queue.get(meeting_id); return when
\* it is None or empty, else enter the loop.
WorkerStart(t) ==
    /\ t \in DOMAIN tasks
    /\ tasks[t].pc = "start"
    /\ ~tasks[t].cancel
    /\ LET m == tasks[t].m
       IN  IF Has(coaching_queue, m) /\ lists[coaching_queue[m]] # <<>>
           THEN WorkerLoop(t, coaching_queue[m], ev[m])
           ELSE /\ tasks' = [tasks EXCEPT ![t].pc = "done"]
                /\ UNCHANGED <<lists, coaching_tasks, ev>>
    /\ UNCHANGED <<fvars, has_gemini, active_connections, meeting_transcript_buffers,
                   coaching_queue, handler, nconn, closed, orphans, outbox, notices, nmsgs, enq,
                   appended, discarded>>

\* _send_feedback from the processor: the payload and the snapshot; with no
\* endpoint there is no await and the loop goes on in the same step.
FeedbackPayload(m, feedback, transcript) == Payload("feedback", m, feedback, transcript)

\* The result is falsy (`if result:` skips the broadcast) or the call raised
\* and `except Exception` logs it: the loop goes on.
CaughtNoneOnly(r) == r.k = "none"
Caught(r) == r.k \in {"none", "raise"}

\* to_thread(_process_transcript_sync) returns to the processor.  A result is
\* broadcast; None and an exception (except Exception: logged) go on with the
\* next sentence.
WorkerReturn(t, r) ==
    /\ t \in DOMAIN tasks
    /\ tasks[t].pc = "thread"
    /\ ~tasks[t].cancel
    /\ r \in ProcessTranscriptSyncOutcomes(tasks[t].sentence, has_gemini)
    /\ LET m == tasks[t].m
           s == tasks[t].sentence
           targets == Snapshot(active_connections, m)
       IN  IF r.k = "ok"
           THEN IF targets = {}
                THEN WorkerLoop(t, tasks[t].queue,
                        ev[m] \o <<Event("fbstart", s), Event("fbend", s)>>)
                ELSE /\ tasks' = [tasks EXCEPT ![t] =
                            [@ EXCEPT !.pc = "send", !.bc = targets, !.failed = FALSE,
                                      !.out = FeedbackPayload(m, r.v, s)]]
                     /\ ev' = [ev EXCEPT ![m] = Append(@, Event("fbstart", s))]
                     /\ UNCHANGED <<lists, coaching_tasks>>
           ELSE IF Caught(r)
                THEN WorkerLoop(t, tasks[t].queue, Append(ev[m], Event("fail", s)))
                ELSE \* an exception nothing catches ends the task
                     /\ Heap([tasks EXCEPT ![t] =
                                [@ EXCEPT !.pc = "done", !.queue = 0,
                                          !.sentence = EmptyStr]],
                             lists, coaching_queue, coaching_tasks, handler)
                     /\ ev' = [ev EXCEPT ![m] = Append(@, Event("fail", s))]
                     /\ coaching_tasks' = coaching_tasks
    /\ UNCHANGED <<fvars, has_gemini, active_connections, meeting_transcript_buffers,
                   coaching_queue, handler, nconn, closed, orphans, outbox, notices, nmsgs, enq,
                   appended, discarded>>

\* One send_text of the processor's broadcast; after the last one the loop
\* goes on in the same step.
WorkerSend(t, w) ==
    /\ t \in DOMAIN tasks
    /\ tasks[t].pc = "send"
    /\ ~tasks[t].cancel
    /\ w \in tasks[t].bc
    /\ Deliver(w, tasks[t].out)
    /\ IF Remaining(tasks[t].bc, w, w \notin closed) = {}
       THEN WorkerLoop(t, tasks[t].queue,
                Append(ev[tasks[t].m], Event("fbend", tasks[t].sentence)))
       ELSE /\ tasks' = [tasks EXCEPT ![t].bc = Remaining(@, w, w \notin closed),
                                      ![t].failed = @ \/ (w \in closed)]
            /\ UNCHANGED <<lists, coaching_tasks, ev>>
    /\ UNCHANGED <<fvars, has_gemini, active_connections, meeting_transcript_buffers,
                   coaching_queue, handler, nconn, closed, orphans, nmsgs, enq,
                   appended, discarded>>

\* task.cancel() takes effect at the task's next step: CancelledError is
\* raised at its await (re-raised by the processor), or before its first
\* step.  The thread of an interrupted to_thread keeps running.
WorkerCancelled(t) ==
    /\ t \in DOMAIN tasks
    /\ tasks[t].pc # "done"
    /\ tasks[t].cancel
    /\ Heap([tasks EXCEPT ![t] =
                [@ EXCEPT !.pc = "done", !.queue = 0, !.sentence = EmptyStr, !.bc = {},
                          !.failed = FALSE, !.out = NoPayload]],
            lists, coaching_queue, coaching_tasks, handler)
    /\ orphans' = IF tasks[t].pc = "thread"
                  THEN [orphans EXCEPT ![tasks[t].m] = @ + 1]
                  ELSE orphans
    /\ UNCHANGED <<fvars, has_gemini, active_connections, meeting_transcript_buffers,
                   coaching_queue, coaching_tasks, handler, nconn, closed,
                   outbox, notices, nmsgs, enq, ev,
                   appended, discarded>>

\* The thread of a cancelled to_thread returns; nobody awaits its result.
OrphanReturn(m) ==
    /\ orphans[m] > 0
    /\ orphans' = [orphans EXCEPT ![m] = @ - 1]
    /\ UNCHANGED <<fvars, has_gemini, active_connections, meeting_transcript_buffers,
                   coaching_queue, lists, coaching_tasks, tasks, handler, nconn,
                   closed, outbox, notices, nmsgs, enq, ev,
                   appended, discarded>>

\* ------------------------------------------------- websocket_coaching
SendPcs == {"greeting", "pt_send", "au_heard", "au_send", "au_unavail"}
ThreadPcs == {"pt_thread", "au_groq", "au_gemini", "au_coach"}

\* Where the coroutine is after a broadcast: back in receive_text, or, after
\* the heard transcript, in to_thread(_process_transcript_sync).
NextPc(pc) == IF pc = "au_heard" THEN "au_coach" ELSE "recv"

\* `if meeting_id not in meeting_transcript_buffers: ... = []` follows the
\* greeting; no other broadcast is followed by a change of the buffers.
AfterBuffers(pc, m) ==
    IF pc = "greeting" /\ ~Has(meeting_transcript_buffers, m)
    THEN Put(meeting_transcript_buffers, m, <<>>)
    ELSE meeting_transcript_buffers

\* A handler enters _send_to_meeting with the given snapshot; with an empty
\* one there is no await and it is at once where the broadcast leads.
BeginBroadcast(c, h, targets, payload, pc) ==
    IF targets = {}
    THEN /\ handler' = [handler EXCEPT ![c] =
                [h EXCEPT !.pc = NextPc(pc), !.bc = {}, !.failed = FALSE,
                          !.out = NoPayload]]
         /\ meeting_transcript_buffers' = AfterBuffers(pc, h.m)
    ELSE /\ handler' = [handler EXCEPT ![c] =
                [h EXCEPT !.pc = pc, !.bc = targets, !.failed = FALSE,
                          !.out = payload]]
         /\ meeting_transcript_buffers' = meeting_transcript_buffers

\* accept, register in active_connections, and the greeting _send_feedback.
Connect(m) ==
    /\ nconn < MaxConn
    /\ LET c == nconn + 1
           conns == Put(active_connections, m, Snapshot(active_connections, m) \cup {c})
       IN  /\ active_connections' = conns
           /\ nconn' = c
           /\ BeginBroadcast(c, [IdleHandler EXCEPT !.m = m], conns[m],
                  Payload(IF has_gemini THEN "listening" ELSE "add_key", m,
                          EmptyStr, EmptyStr),
                  "greeting")
    /\ UNCHANGED <<fvars, has_gemini, coaching_queue, lists, coaching_tasks, tasks, closed,
                   orphans, outbox, notices, nmsgs, enq, ev,
                   appended, discarded>>

\* One send_text of a handler's broadcast.
HandlerSend(c, w) ==
    /\ handler[c].pc \in SendPcs
    /\ w \in handler[c].bc
    /\ Deliver(w, handler[c].out)
    /\ IF Remaining(handler[c].bc, w, w \notin closed) = {}
       THEN /\ handler' = [handler EXCEPT ![c] =
                   [@ EXCEPT !.pc = NextPc(handler[c].pc), !.bc = {},
                             !.failed = FALSE, !.out = NoPayload]]
            /\ meeting_transcript_buffers' = AfterBuffers(handler[c].pc, handler[c].m)
       ELSE /\ handler' = [handler EXCEPT ![c].bc = Remaining(@, w, w \notin closed),
                                          ![c].failed = @ \/ (w \in closed)]
            /\ meeting_transcript_buffers' = meeting_transcript_buffers
    /\ UNCHANGED <<fvars, has_gemini, active_connections, coaching_queue, lists,
                   coaching_tasks, tasks, nconn, closed, orphans, nmsgs,
                   enq, ev,
                   appended, discarded>>

\* The peer goes away; the handler learns of it in its next receive_text.
ClientClose(c) ==
    /\ handler[c].pc \notin {"idle", "closed"}
    /\ c \notin closed
    /\ closed' = closed \cup {c}
    /\ UNCHANGED <<fvars, has_gemini, active_connections, meeting_transcript_buffers,
                   coaching_queue, lists, coaching_tasks, tasks, handler, nconn,
                   orphans, outbox, notices, nmsgs, enq, ev,
                   appended, discarded>>

\* discard(websocket) without the del of an empty set.
DiscardKeepsKey(conns, m, c) ==
    IF Has(conns, m) THEN Put(conns, m, conns[m] \ {c}) ELSE conns

\* active_connections after discard(websocket) and the del of an empty set.
Discard(conns, m, c) ==
    IF Has(conns, m)
    THEN IF conns[m] \ {c} = {} THEN Pop(conns, m) ELSE Put(conns, m, conns[m] \ {c})
    ELSE conns

\* coaching_tasks.pop(meeting_id, None): the task, 0 for None.
PoppedTask(m) == IF Has(coaching_tasks, m) THEN coaching_tasks[m] ELSE 0

\* dict.pop(meeting_id, None)
NotTorn(d, m) == d
TornAll(d, m) == EmptyDict
Torn(d, m) == Pop(d, m)

\* `task is not None and not task.done()`
NeverCancel(t) == FALSE
MustCancel(t) == t # 0 /\ tasks[t].pc # "done"

\* The finally block, up to `await task` or to the coroutine's end.
Finally(c) ==
    LET m == handler[c].m
        t == PoppedTask(m)
    IN  /\ active_connections' = Discard(active_connections, m, c)
        /\ meeting_transcript_buffers' = Torn(meeting_transcript_buffers, m)
        /\ coaching_queue' = Torn(coaching_queue, m)
        /\ coaching_tasks' = Pop(coaching_tasks, m)
        /\ appended' = [appended EXCEPT ![m] = <<>>]
        /\ discarded' = [discarded EXCEPT ![m] =
                @ \/ (/\ ~Has(Discard(active_connections, m, c), m)
                      /\ Has(meeting_transcript_buffers, m)
                      /\ meeting_transcript_buffers[m] # <<>>)]
        /\ enq' = [enq EXCEPT ![m] = <<>>]
        /\ ev' = [ev EXCEPT ![m] = <<>>]
        /\ LET h == IF MustCancel(t)
                    THEN [IdleHandler EXCEPT !.pc = "await_task", !.m = m, !.task = t]
                    ELSE [IdleHandler EXCEPT !.pc = "closed", !.m = m]
               hs == [handler EXCEPT ![c] = h]
           IN  /\ handler' = hs
               /\ closed' = IF MustCancel(t) THEN closed ELSE closed \cup {c}
               /\ Heap(IF MustCancel(t) THEN [tasks EXCEPT ![t].cancel = TRUE] ELSE tasks,
                       lists, Torn(coaching_queue, m), Pop(coaching_tasks, m), hs)

\* `await task` returns (CancelledError swallowed): the coroutine ends.
HandlerTaskDone(c) ==
    /\ handler[c].pc = "await_task"
    /\ tasks[handler[c].task].pc = "done"
    /\ LET hs == [handler EXCEPT ![c] =
                    [IdleHandler EXCEPT !.pc = "closed", !.m = handler[c].m]]
       IN  /\ handler' = hs
           /\ Heap(tasks, lists, coaching_queue, coaching_tasks, hs)
    /\ closed' = closed \cup {c}
    /\ UNCHANGED <<fvars, has_gemini, active_connections, meeting_transcript_buffers,
                   coaching_queue, coaching_tasks, nconn, orphans, outbox, notices, nmsgs,
                   enq, ev,
                   appended, discarded>>

\* receive_text raises WebSocketDisconnect.
RecvDisconnect(c) ==
    /\ handler[c].pc = "recv"
    /\ c \in closed
    /\ Finally(c)
    /\ UNCHANGED <<fvars, has_gemini, nconn, orphans, outbox, notices, nmsgs>>

\* ---------------------------------------------------- the receive loop
\* receive_text returns `msg` to handler c.
Got(c, msg) ==
    /\ handler[c].pc = "recv"
    /\ c \notin closed
    /\ nmsgs < MaxMsgs
    /\ msg \in Msgs
    /\ nmsgs' = nmsgs + 1

TextTypes == {"transcript", "process_transcript"}

\* The message makes the loop body raise something other than
\* json.JSONDecodeError: msg.get on a non-object, .strip() or len() on a
\* non-string, or meeting_transcript_buffers[meeting_id] on a missing key.
MsgRaises(msg, m) ==
    \/ msg.shape = "notobject"
    \/ /\ msg.shape = "object"
       /\ msg.type \in TextTypes \cup {"audio"}
       /\ ~msg.isStr
    \/ /\ msg.shape = "object"
       /\ msg.type = "transcript"
       /\ msg.isStr
       /\ Strip(msg.text) # EmptyStr
       /\ ~Has(meeting_transcript_buffers, m)

\* The message changes nothing: JSONDecodeError (pass), an unknown type, an
\* empty stripped text, or empty audio data.
MsgIgnored(msg) ==
    \/ msg.shape = "notjson"
    \/ /\ msg.shape = "object"
       /\ msg.type \notin TextTypes \cup {"audio"}
    \/ /\ msg.shape = "object"
       /\ msg.isStr
       /\ \/ msg.type \in TextTypes /\ Strip(msg.text) = EmptyStr
          \/ msg.type = "audio" /\ msg.text = EmptyStr

RecvIgnored(c, msg) ==
    /\ Got(c, msg)
    /\ MsgIgnored(msg)
    /\ UNCHANGED <<fvars, has_gemini, active_connections, meeting_transcript_buffers,
                   coaching_queue, lists, coaching_tasks, tasks, handler, nconn,
                   closed, orphans, outbox, notices, enq, ev,
                   appended, discarded>>

\* The exception leaves the while loop through the finally block.
RecvRaises(c, msg) ==
    /\ Got(c, msg)
    /\ MsgRaises(msg, handler[c].m)
    /\ Finally(c)
    /\ UNCHANGED <<fvars, has_gemini, nconn, orphans, outbox, notices>>

\* `task is None or task.done()`
AlwaysNeedsTask(m) == TRUE
NeedsTaskGlobal(m) == \A t \in DOMAIN tasks : ~Running(tasks[t])
NeedsTask(m) == ~Has(coaching_tasks, m) \/ tasks[coaching_tasks[m]].pc = "done"

\* len(transcript) < MIN_SENTENCE_LEN_FOR_QUEUE: continue
TooShort(t) == Len(t) < MIN_SENTENCE_LEN_FOR_QUEUE

\* type "transcript": append to the buffer, and for a long enough sentence
\* append to the queue and start the processor unless one is registered.
RecvTranscript(c, msg) ==
    /\ Got(c, msg)
    /\ msg.shape = "object" /\ msg.type = "transcript" /\ msg.isStr
    /\ Strip(msg.text) # EmptyStr
    /\ Has(meeting_transcript_buffers, handler[c].m)
    /\ LET m == handler[c].m
           t == Strip(msg.text)
           fresh == ~Has(coaching_queue, m)
           qid == IF fresh THEN NewListSlot(lists, coaching_queue, tasks)
                           ELSE coaching_queue[m]
           lists1 == IF fresh THEN Store(lists, qid, <<>>) ELSE lists
           \* the tasks once the entry of a finished task is overwritten
           ts1 == GcTasks(tasks, Pop(coaching_tasks, m), handler)
           tid == NewTaskSlot(ts1)
       IN  /\ meeting_transcript_buffers' =
                 [meeting_transcript_buffers EXCEPT ![m] = Append(@, t)]
           /\ appended' = [appended EXCEPT ![m] = Append(@, t)]
           /\ IF TooShort(t)
              THEN UNCHANGED <<coaching_queue, lists, coaching_tasks, tasks, enq>>
              ELSE /\ coaching_queue' = Put(coaching_queue, m, qid)
                   /\ enq' = [enq EXCEPT ![m] = Append(@, t)]
                   /\ IF NeedsTask(m)
                      THEN /\ Heap(Store(ts1, tid, NewTask(m)),
                                   [lists1 EXCEPT ![qid] = Append(@, t)],
                                   Put(coaching_queue, m, qid),
                                   Put(coaching_tasks, m, tid), handler)
                           /\ coaching_tasks' = Put(coaching_tasks, m, tid)
                      ELSE /\ Heap(tasks, [lists1 EXCEPT ![qid] = Append(@, t)],
                                   Put(coaching_queue, m, qid), coaching_tasks, handler)
                           /\ coaching_tasks' = coaching_tasks
    /\ UNCHANGED <<fvars, has_gemini, active_connections, handler, nconn, closed, orphans,
                   outbox, notices, ev, discarded>>

\* type "process_transcript": to_thread(analyze_transcript, full_text).
RecvProcessTranscript(c, msg) ==
    /\ Got(c, msg)
    /\ msg.shape = "object" /\ msg.type = "process_transcript" /\ msg.isStr
    /\ Strip(msg.text) # EmptyStr
    /\ handler' = [handler EXCEPT ![c].pc = "pt_thread", ![c].text = Strip(msg.text)]
    /\ UNCHANGED <<fvars, has_gemini, active_connections, meeting_transcript_buffers,
                   coaching_queue, lists, coaching_tasks, tasks, nconn, closed,
                   orphans, outbox, notices, enq, ev,
                   appended, discarded>>

\* analyze_transcript returns to the handler: the feedback, or the failure
\* notice for None; an exception is logged and nothing is sent.
PtReturn(c, r) ==
    /\ handler[c].pc = "pt_thread"
    /\ r \in AnalyzeOutcomes(has_gemini)
    /\ LET h == [handler[c] EXCEPT !.text = EmptyStr]
           m == handler[c].m
           targets == Snapshot(active_connections, m)
       IN  CASE r.k = "ok" ->
                    BeginBroadcast(c, h, targets,
                        FeedbackPayload(m, r.v, handler[c].text), "pt_send")
             [] r.k = "none" ->
                    BeginBroadcast(c, h, targets,
                        Payload("failed_notice", m, EmptyStr, EmptyStr), "pt_send")
             [] OTHER ->
                    /\ handler' = [handler EXCEPT ![c] = [h EXCEPT !.pc = "recv"]]
                    /\ meeting_transcript_buffers' = meeting_transcript_buffers
    /\ UNCHANGED <<fvars, has_gemini, active_connections, coaching_queue, lists,
                   coaching_tasks, tasks, nconn, closed, orphans, outbox, notices, nmsgs, enq, ev,
                   appended, discarded>>

\* type "audio" with data: to_thread(transcribe_audio, ...).
RecvAudio(c, msg) ==
    /\ Got(c, msg)
    /\ msg.shape = "object" /\ msg.type = "audio" /\ msg.isStr
    /\ msg.text # EmptyStr
    /\ handler' = [handler EXCEPT ![c].pc = "au_groq"]
    /\ UNCHANGED <<fvars, has_gemini, active_connections, meeting_transcript_buffers,
                   coaching_queue, lists, coaching_tasks, tasks, nconn, closed,
                   orphans, outbox, notices, enq, ev,
                   appended, discarded>>

\* The transcript is broadcast as {"heard": ...}; without one the notice is.
Heard(c, r) ==
    LET m == handler[c].m
        targets == Snapshot(active_connections, m)
    IN  IF r.k = "ok"
        THEN BeginBroadcast(c, [handler[c] EXCEPT !.text = r.v], targets,
                 Payload("heard", m, r.v, EmptyStr), "au_heard")
        ELSE BeginBroadcast(c, handler[c], targets,
                 Payload("unavailable", m, EmptyStr, EmptyStr), "au_unavail")

\* transcribe_audio returns: a transcript, or on None the Gemini fallback.
AuGroqReturn(c, r) ==
    /\ handler[c].pc = "au_groq"
    /\ r \in GroqOutcomes
    /\ IF r.k = "ok"
       THEN Heard(c, r)
       ELSE /\ handler' = [handler EXCEPT ![c].pc = "au_gemini"]
            /\ meeting_transcript_buffers' = meeting_transcript_buffers
    /\ UNCHANGED <<fvars, has_gemini, active_connections, coaching_queue, lists,
                   coaching_tasks, tasks, nconn, closed, orphans, outbox, notices, nmsgs, enq, ev,
                   appended, discarded>>

\* transcribe_audio_gemini returns.
AuGeminiReturn(c, r) ==
    /\ handler[c].pc = "au_gemini"
    /\ r \in GeminiTranscribeOutcomes(has_gemini)
    /\ Heard(c, r)
    /\ UNCHANGED <<fvars, has_gemini, active_connections, coaching_queue, lists,
                   coaching_tasks, tasks, nconn, closed, orphans, outbox, notices, nmsgs, enq, ev,
                   appended, discarded>>

\* _process_transcript_sync returns to the audio path with a result or None.
AuCoachReturn(c, r) ==
    /\ handler[c].pc = "au_coach"
    /\ r \in ProcessTranscriptSyncOutcomes(handler[c].text, has_gemini)
    /\ r.k # "raise"
    /\ LET h == [handler[c] EXCEPT !.text = EmptyStr]
           m == handler[c].m
       IN  IF r.k = "ok"
           THEN BeginBroadcast(c, h, Snapshot(active_connections, m),
                    FeedbackPayload(m, r.v, Strip(handler[c].text)), "au_send")
           ELSE /\ handler' = [handler EXCEPT ![c] = [h EXCEPT !.pc = "recv"]]
                /\ meeting_transcript_buffers' = meeting_transcript_buffers
    /\ UNCHANGED <<fvars, has_gemini, active_connections, coaching_queue, lists,
                   coaching_tasks, tasks, nconn, closed, orphans, outbox, notices, nmsgs, enq, ev,
                   appended, discarded>>

\* An exception of the coaching call is not a JSONDecodeError: the audio
\* path leaves the loop through the finally block.
AuCoachRaises(c) ==
    /\ handler[c].pc = "au_coach"
    /\ RaiseRes \in ProcessTranscriptSyncOutcomes(handler[c].text, has_gemini)
    /\ Finally(c)
    /\ UNCHANGED <<fvars, has_gemini, nconn, orphans, outbox, notices, nmsgs>>

\* ---------------------------------------------------------------- Next
Next ==
    \/ \E m \in Meetings : Connect(m)
    \/ \E c \in Conns : ClientClose(c)
    \/ \E c \in Conns, w \in Conns : HandlerSend(c, w)
    \/ \E c \in Conns, msg \in Msgs : RecvIgnored(c, msg)
    \/ \E c \in Conns, msg \in Msgs : RecvRaises(c, msg)
    \/ \E c \in Conns, msg \in Msgs : RecvTranscript(c, msg)
    \/ \E c \in Conns, msg \in Msgs : RecvProcessTranscript(c, msg)
    \/ \E c \in Conns, msg \in Msgs : RecvAudio(c, msg)
    \/ \E c \in Conns : RecvDisconnect(c)
    \/ \E c \in Conns : HandlerTaskDone(c)
    \/ \E c \in Conns, r \in AnalyzeOutcomes(TRUE) : PtReturn(c, r)
    \/ \E c \in Conns, r \in GroqOutcomes : AuGroqReturn(c, r)
    \/ \E c \in Conns, r \in GroqOutcomes : AuGeminiReturn(c, r)
    \/ \E c \in Conns, r \in AnalyzeOutcomes(TRUE) : AuCoachReturn(c, r)
    \/ \E c \in Conns : AuCoachRaises(c)
    \/ \E t \in DOMAIN tasks : WorkerStart(t)
    \/ \E t \in DOMAIN tasks, r \in AnalyzeOutcomes(TRUE) : WorkerReturn(t, r)
    \/ \E t \in DOMAIN tasks, w \in Conns : WorkerSend(t, w)
    \/ \E t \in DOMAIN tasks : WorkerCancelled(t)
    \/ \E m \in Meetings : OrphanReturn(m)

Spec == Init /\ [][Next]_vars

\* ============================================================== claims
\* The tasks of meeting m that have not terminated.
LiveTasks(m) == {t \in DOMAIN tasks : tasks[t].m = m /\ Running(tasks[t])}

\* A worker is active from its creation to its termination, unless it has
\* been cancelled: a cancelled task runs no further line of its code.
ActiveWorkers(m) == {t \in LiveTasks(m) : ~tasks[t].cancel}

\* The pending queue of meeting m.
QueueOf(m) == IF Has(coaching_queue, m) THEN lists[coaching_queue[m]] ELSE <<>>

\* The coaching calls of meeting m running in a thread: analyze_transcript
\* calls the model only when an API key gives it one.
InFlight(m) ==
    IF ~has_gemini THEN 0
    ELSE Cardinality({c \in Conns :
            /\ handler[c].m = m
            /\ \/ handler[c].pc = "pt_thread"
               \/ handler[c].pc = "au_coach" /\ CallsOracle(handler[c].text)})
         + Cardinality({t \in DOMAIN tasks : tasks[t].m = m /\ tasks[t].pc = "thread"})
         + orphans[m]

\* C1: a meeting never has two active queue processors, and the active one
\* is the task registered in coaching_tasks: an enqueue that finds it
\* running only appends.
C1_OneActiveWorker ==
    \A m \in Meetings :
        /\ Cardinality(ActiveWorkers(m)) <= 1
        /\ ActiveWorkers(m) # {} =>
              Has(coaching_tasks, m) /\ coaching_tasks[m] \in ActiveWorkers(m)

\* C1 witness: a sentence waits in the queue while the one processor is in
\* its coaching call, so an enqueue arrived while it ran.
C1_Witness ==
    \E m \in Meetings :
        /\ QueueOf(m) # <<>>
        /\ \E t \in ActiveWorkers(m) : tasks[t].pc = "thread"

\* C2 (as claimed): a meeting never has two coaching calls in flight.
C2_SingleFlight == \A m \in Meetings : InFlight(m) <= 1

\* The sentences of the "call" events, in order.
RECURSIVE CallsOf(_)
CallsOf(e) ==
    IF e = <<>> THEN <<>>
    ELSE IF Head(e).k = "call" THEN <<Head(e).s>> \o CallsOf(Tail(e))
    ELSE CallsOf(Tail(e))

\* The processor's events on one sentence come in the order call, then fail
\* or fbstart, fbend; a call follows only the end of the sentence before.
Serialized(e) ==
    \A i \in 1..Len(e) :
        /\ e[i].k = "call" => i = 1 \/ e[i - 1].k \in {"fail", "fbend"}
        /\ e[i].k \in {"fail", "fbstart"} => i > 1 /\ e[i - 1] = Event("call", e[i].s)
        /\ e[i].k = "fbend" => i > 1 /\ e[i - 1] = Event("fbstart", e[i].s)

\* C3: the sentences enqueued on a queue are taken in their order of arrival,
\* each once (those taken, then those waiting, are the sentences enqueued),
\* the feedback of a sentence is wholly broadcast before the call for the
\* next begins, and the sentence in progress is that of the one active worker.
C3_Fifo ==
    \A m \in Meetings :
        /\ CallsOf(ev[m]) \o QueueOf(m) = enq[m]
        /\ Serialized(ev[m])
        /\ ev[m] # <<>> /\ ev[m][Len(ev[m])].k \in {"call", "fbstart"} =>
              /\ Has(coaching_tasks, m)
              /\ ActiveWorkers(m) = {coaching_tasks[m]}
              /\ tasks[coaching_tasks[m]].sentence = ev[m][Len(ev[m])].s
              /\ tasks[coaching_tasks[m]].pc =
                    IF ev[m][Len(ev[m])].k = "call" THEN "thread" ELSE "send"

\* C3 witness: two different sentences were queued together, the feedback of
\* the first was broadcast, and the second is in its call.
C3_Witness ==
    \E m \in Meetings :
        /\ Len(ev[m]) = 4
        /\ ev[m][1].k = "call" /\ ev[m][2].k = "fbstart" /\ ev[m][3].k = "fbend"
        /\ ev[m][4].k = "call"
        /\ ev[m][1].s # ev[m][4].s
        /\ enq[m] = <<ev[m][1].s, ev[m][4].s>>

\* C4: a non-empty queue always has a registered, active processor reading
\* that very list (or not yet started), so no enqueued sentence is stranded
\* by a processor that stopped.
C4_NoMissedWakeup ==
    \A m \in Meetings :
        QueueOf(m) # <<>> =>
            /\ Has(coaching_tasks, m)
            /\ coaching_tasks[m] \in ActiveWorkers(m)
            /\ tasks[coaching_tasks[m]].queue \in {0, coaching_queue[m]}
            /\ tasks[coaching_tasks[m]].queue = 0 <=> tasks[coaching_tasks[m]].pc = "start"

\* C4 witness: a processor has drained the queue and stopped, a sentence was
\* enqueued after that, and a new processor is registered for it.
C4_Witness ==
    \E m \in Meetings :
        /\ ev[m] # <<>>
        /\ QueueOf(m) # <<>>
        /\ Has(coaching_tasks, m)
        /\ tasks[coaching_tasks[m]].pc = "start"

\* C5 (as claimed): a disconnect removes the endpoint, purges the meeting's
\* buffer, queue and worker handle and cancels the worker when no endpoint is
\* left, and leaves them all unchanged when another endpoint remains.
C5_Unregister ==
    [][\A c \in Conns :
          RecvDisconnect(c) =>
              LET m == handler[c].m
              IN  /\ c \notin Snapshot(active_connections', m)
                  /\ IF Snapshot(active_connections, m) \ {c} = {}
                     THEN /\ ~Has(meeting_transcript_buffers', m)
                          /\ ~Has(coaching_queue', m)
                          /\ ~Has(coaching_tasks', m)
                          /\ \A t \in LiveTasks(m) : tasks'[t].cancel
                     ELSE UNCHANGED <<meeting_transcript_buffers, coaching_queue,
                                      coaching_tasks, tasks, lists>>]_vars

\* q is the end of the sequence e.
IsSuffix(q, e) ==
    /\ Len(q) <= Len(e)
    /\ q = SubSeq(e, Len(e) - Len(q) + 1, Len(e))

Elements(e) == {e[i] : i \in 1..Len(e)}

\* C6: a meeting without endpoints has no buffer, no queue and no worker
\* handle, and what a meeting holds was all received since its state was
\* last created: the buffer is exactly the sentences appended since, the
\* queue is the last of those enqueued since, and a sentence in progress is
\* one of them.
C6_FreshState ==
    \A m \in Meetings :
        /\ ~Has(active_connections, m) =>
              /\ ~Has(meeting_transcript_buffers, m)
              /\ ~Has(coaching_queue, m)
              /\ ~Has(coaching_tasks, m)
        /\ Has(meeting_transcript_buffers, m) =>
              meeting_transcript_buffers[m] = appended[m]
        /\ IsSuffix(QueueOf(m), enq[m])
        /\ \A t \in ActiveWorkers(m) :
              tasks[t].pc \in {"thread", "send"} => tasks[t].sentence \in Elements(enq[m])

\* C6 witness: a last disconnect dropped a non-empty buffer, and the meeting,
\* connected again, has a sentence queued.
C6_Witness ==
    \E m \in Meetings :
        /\ discarded[m]
        /\ Has(meeting_transcript_buffers, m)
        /\ QueueOf(m) # <<>>

\* A running worker of a meeting without endpoints has been cancelled, and
\* the handler that cancelled a worker stays in its teardown, awaiting it,
\* until the worker has terminated.
CancelledAndAwaited ==
    \A t \in DOMAIN tasks :
        Running(tasks[t]) =>
            /\ ~Has(active_connections, tasks[t].m) => tasks[t].cancel
            /\ tasks[t].cancel =>
                  \E c \in Conns : handler[c].pc = "await_task" /\ handler[c].task = t

\* The only step of a cancelled worker is its termination, which changes
\* no dict, no list a dict holds, no handler and nothing delivered.
CancelledIsInert ==
    \A t \in DOMAIN tasks :
        Running(tasks[t]) /\ tasks[t].cancel /\ tasks'[t] # tasks[t] =>
            /\ ~Running(tasks'[t])
            /\ UNCHANGED <<active_connections, meeting_transcript_buffers,
                           coaching_queue, coaching_tasks, handler, outbox, ev, enq>>
            /\ \A m \in DOMAIN coaching_queue :
                  lists'[coaching_queue[m]] = lists[coaching_queue[m]]
            /\ \A u \in DOMAIN tasks : u # t => tasks'[u] = tasks[u]

\* C7: the last disconnect cancels the active worker and its teardown ends
\* only after the worker has terminated; once cancelled the worker starts no
\* call, broadcasts nothing and changes no session state.
C7_CancelAwaited == [](CancelledAndAwaited) /\ [][CancelledIsInert]_vars

\* C7 witness: the meeting has no endpoint left, its worker was cancelled in
\* its coaching call and has not terminated, and the handler awaits it.
C7_Witness ==
    \E t \in DOMAIN tasks :
        /\ tasks[t].pc = "thread" /\ tasks[t].cancel
        /\ ~Has(active_connections, tasks[t].m)
        /\ \E c \in Conns : handler[c].pc = "await_task" /\ handler[c].task = t

\* C8: after a failed call (None or an exception) comes the call for the
\* next queued sentence, never a broadcast and never the same sentence again;
\* when it was the last event, the queue was empty, or a sentence enqueued
\* since has a worker about to start.
C8_FailureSkips ==
    \A m \in Meetings :
        /\ Len(CallsOf(ev[m])) + Len(QueueOf(m)) = Len(enq[m])
        /\ \A i \in 1..Len(ev[m]) :
              ev[m][i].k = "fail" =>
                  /\ i < Len(ev[m]) => ev[m][i + 1].k = "call"
                  /\ i = Len(ev[m]) =>
                        \/ QueueOf(m) = <<>>
                        \/ /\ Has(coaching_tasks, m)
                           /\ coaching_tasks[m] \in ActiveWorkers(m)
                           /\ tasks[coaching_tasks[m]].pc = "start"

\* C8 witness: the call for the first of two queued sentences failed and the
\* worker is in the call for the second.
C8_Witness ==
    \E m \in Meetings :
        /\ Len(ev[m]) = 3
        /\ ev[m][2].k = "fail" /\ ev[m][3].k = "call"
        /\ enq[m] = <<ev[m][1].s, ev[m][3].s>>
        /\ \E t \in ActiveWorkers(m) : tasks[t].pc = "thread"

\* A step of a coroutine in _send_to_meeting: one endpoint of its snapshot is
\* sent to (delivered unless its peer has gone) and only that one leaves the
\* endpoints to send to, whether or not the send raised.
SendStep(before, after, pcAfterLast) ==
    \E w \in before.bc :
        /\ w \notin closed => outbox'[w] = before.out
        /\ IF before.bc = {w}
           THEN after.pc \in pcAfterLast
           ELSE after.pc = before.pc /\ after.bc = before.bc \ {w}

\* C9: a broadcast starts with every endpoint registered for the meeting,
\* each send takes one endpoint off whatever its outcome, and no send
\* changes active_connections.
C9_BroadcastStep ==
    /\ \A c \in Conns :
          /\ handler[c].pc \in SendPcs /\ handler'[c] # handler[c] =>
                /\ active_connections' = active_connections
                /\ SendStep(handler[c], handler'[c], {NextPc(handler[c].pc)})
          /\ handler[c].pc \notin SendPcs /\ handler'[c].pc \in SendPcs =>
                handler'[c].bc = Snapshot(active_connections', handler'[c].m)
    /\ \A t \in DOMAIN tasks :
          /\ (/\ tasks[t].pc = "send" /\ ~tasks[t].cancel
              /\ tasks'[t] # tasks[t] /\ ~tasks'[t].cancel) =>
                /\ active_connections' = active_connections
                /\ SendStep(tasks[t], tasks'[t], {"thread", "done", "free"})
          /\ tasks[t].pc # "send" /\ tasks'[t].pc = "send" =>
                tasks'[t].bc = Snapshot(active_connections', tasks'[t].m)

C9_Broadcast == [][C9_BroadcastStep]_vars

\* C9 witness: in one broadcast a send has failed and endpoints are still
\* to be sent to.
C9_Witness ==
    \/ \E c \in Conns :
          handler[c].pc \in SendPcs /\ handler[c].failed /\ handler[c].bc # {}
    \/ \E t \in DOMAIN tasks :
          tasks[t].pc = "send" /\ tasks[t].failed /\ tasks[t].bc # {}

Malformed ==
    {NotJson, NotObject} \cup {BadField(t) : t \in {"transcript", "process_transcript", "audio"}}

\* C10 (as claimed): a message that is not a well-formed envelope leaves the
\* connection in its receive loop and registered, and the meeting's buffer,
\* queue and worker unchanged.
C10_MalformedDiscarded ==
    [][\A c \in Conns, msg \in Malformed :
          RecvIgnored(c, msg) \/ RecvRaises(c, msg) =>
              /\ handler'[c].pc = "recv"
              /\ c \in Snapshot(active_connections', handler[c].m)
              /\ UNCHANGED <<meeting_transcript_buffers, coaching_queue,
                             coaching_tasks, tasks, lists>>]_vars

\* A step of the handler of connection c.
HandlerStep(c) ==
    \/ ClientClose(c)
    \/ \E w \in Conns : HandlerSend(c, w)
    \/ \E msg \in Msgs :
          \/ RecvIgnored(c, msg) \/ RecvRaises(c, msg) \/ RecvTranscript(c, msg)
          \/ RecvProcessTranscript(c, msg) \/ RecvAudio(c, msg)
    \/ RecvDisconnect(c) \/ HandlerTaskDone(c) \/ AuCoachRaises(c)
    \/ \E r \in AnalyzeOutcomes(TRUE) : PtReturn(c, r) \/ AuCoachReturn(c, r)
    \/ \E r \in GroqOutcomes : AuGroqReturn(c, r) \/ AuGeminiReturn(c, r)

\* A step of the worker task t.
WorkerStep(t) ==
    \/ WorkerStart(t) \/ WorkerCancelled(t)
    \/ \E r \in AnalyzeOutcomes(TRUE) : WorkerReturn(t, r)
    \/ \E w \in Conns : WorkerSend(t, w)

\* The step is an operation of meeting a: a connect to it, or a step of one
\* of its handlers, of one of its workers or of a thread one of them left.
OnSession(a) ==
    \/ Connect(a)
    \/ OrphanReturn(a)
    \/ \E c \in Conns : handler[c].m = a /\ HandlerStep(c)
    \/ \E t \in DOMAIN tasks : tasks[t].m = a /\ WorkerStep(t)

\* What the dicts hold for meeting b.
SessionState(b) ==
    << Snapshot(active_connections, b),
       Has(meeting_transcript_buffers, b),
       IF Has(meeting_transcript_buffers, b) THEN meeting_transcript_buffers[b] ELSE <<>>,
       Has(coaching_queue, b), QueueOf(b),
       Has(coaching_tasks, b),
       IF Has(coaching_tasks, b) THEN coaching_tasks[b] ELSE 0 >>

\* C11: an operation of meeting a leaves the endpoints, buffer, queue and
\* worker handle of every other meeting b as they were, cancels no worker
\* of b, and delivers only to endpoints of a, and only payloads made for a.
C11_NoInterference ==
    [][\A a \in Meetings : \A b \in Meetings \ {a} :
          OnSession(a) =>
              /\ SessionState(b)' = SessionState(b)
              /\ \A t \in DOMAIN tasks : tasks[t].m = b => tasks'[t] = tasks[t]
              /\ \A w \in Conns :
                    outbox'[w] # outbox[w] =>
                        /\ handler[w].m = a
                        /\ outbox'[w].m = a]_vars

\* C11 witness: meeting a was torn down with a non-empty buffer while
\* meeting b has a sentence queued and an active worker.
C11_Witness ==
    \E a \in Meetings : \E b \in Meetings \ {a} :
        /\ discarded[a] /\ ~Has(active_connections, a)
        /\ QueueOf(b) # <<>>
        /\ ActiveWorkers(b) # {}

\* A coaching call of meeting a's worker is in its thread and has not returned.
Hung(a) == \E t \in ActiveWorkers(a) : tasks[t].pc = "thread"

\* C12: while a call of meeting a's worker has not returned, every other
\* meeting b can take its next step: an endpoint in receive_text can have a
\* sentence enqueued, a queued sentence has an active worker, and that
\* worker can start, can get its call's result, and can send its feedback.
C12_HungCallLocal ==
    \A a \in Meetings : \A b \in Meetings \ {a} :
        Hung(a) =>
            /\ \A c \in Conns :
                  /\ handler[c].m = b /\ handler[c].pc = "recv" /\ c \notin closed
                  /\ nmsgs < MaxMsgs /\ Has(meeting_transcript_buffers, b)
                  => ENABLED RecvTranscript(c, Obj("transcript", Hello))
            /\ QueueOf(b) # <<>> => ActiveWorkers(b) # {}
            /\ \A t \in ActiveWorkers(b) :
                  /\ tasks[t].pc = "start" => ENABLED WorkerStart(t)
                  /\ tasks[t].pc = "thread" =>
                        \A r \in ProcessTranscriptSyncOutcomes(tasks[t].sentence, has_gemini) :
                            ENABLED WorkerReturn(t, r)
                  /\ tasks[t].pc = "send" =>
                        \A w \in tasks[t].bc : ENABLED WorkerSend(t, w)

\* C12 witness: meeting a's worker is still in its first call, and meeting b
\* has had a sentence enqueued, called for and its feedback delivered.
C12_Witness ==
    \E a \in Meetings : \E b \in Meetings \ {a} :
        /\ Hung(a)
        /\ Len(ev[a]) = 1
        /\ Len(ev[b]) = 3 /\ ev[b][3].k = "fbend"
        /\ \E w \in Conns : outbox[w].kind = "feedback" /\ outbox[w].m = b

IsProcessTranscript(msg) ==
    msg.shape = "object" /\ msg.type = "process_transcript" /\ msg.isStr

\* C13 (as claimed): every process_transcript message goes to one coaching
\* call for its text, whose return starts one broadcast to the meeting, of
\* the feedback for a result and of the failure notice otherwise; neither
\* step changes the queue or the worker.
C13_ProcessTranscript ==
    [][/\ \A c \in Conns, msg \in Msgs :
             /\ IsProcessTranscript(msg)
             /\ RecvIgnored(c, msg) \/ RecvProcessTranscript(c, msg)
             => /\ handler'[c].pc = "pt_thread"
                /\ handler'[c].text = Strip(msg.text)
                /\ UNCHANGED <<coaching_queue, lists, coaching_tasks, tasks>>
       /\ \A c \in Conns, r \in AnalyzeOutcomes(TRUE) :
             PtReturn(c, r) =>
                /\ handler'[c].pc = "pt_send"
                /\ handler'[c].bc = Snapshot(active_connections, handler[c].m)
                /\ handler'[c].bc # {}
                /\ handler'[c].out.kind = IF r.k = "ok" THEN "feedback" ELSE "failed_notice"
                /\ UNCHANGED <<coaching_queue, lists, coaching_tasks, tasks>>]_vars

IsAudio(msg) == msg.shape = "object" /\ msg.type = "audio" /\ msg.isStr

\* The handler of c starts the broadcast of a payload of this kind to the
\* endpoints of its meeting.
Broadcasts(c, pc, kind) ==
    /\ handler'[c].pc = pc
    /\ handler'[c].out.kind = kind
    /\ handler'[c].bc = Snapshot(active_connections, handler[c].m)
    /\ handler'[c].bc # {}

\* C14 (as claimed): every audio message goes to the primary provider; the
\* secondary is called exactly when the primary gave nothing; a transcript
\* is broadcast as heard before its analysis starts, and the analysis is
\* then the only coaching call of the meeting in flight; with no transcript
\* from either provider the unavailable notice is broadcast and no analysis
\* starts.
C14_Audio ==
    [][\A c \in Conns :
          /\ \A msg \in Msgs :
                IsAudio(msg) /\ (RecvIgnored(c, msg) \/ RecvAudio(c, msg))
                => handler'[c].pc = "au_groq"
          /\ \A r \in GroqOutcomes :
                AuGroqReturn(c, r) =>
                    IF r.k = "ok" THEN Broadcasts(c, "au_heard", "heard")
                                  ELSE handler'[c].pc = "au_gemini"
          /\ \A r \in GroqOutcomes :
                AuGeminiReturn(c, r) =>
                    IF r.k = "ok" THEN Broadcasts(c, "au_heard", "heard")
                                  ELSE Broadcasts(c, "au_unavail", "unavailable")
          /\ handler[c].pc = "au_unavail" /\ handler'[c].pc # "au_unavail"
             => handler'[c].pc \in {"recv", "await_task", "idle"}
          /\ handler[c].pc # "au_coach" /\ handler'[c].pc = "au_coach"
             => /\ handler[c].pc = "au_heard"
                /\ InFlight(handler[c].m)' <= 1]_vars

\* C15 (as claimed): without an API key no endpoint is delivered the
\* add-the-key notice more than once, however many endpoints join its
\* meeting.
C15_NoticeOnce == \A c \in Conns : notices[c] <= 1

IsTranscript(msg) == msg.shape = "object" /\ msg.type = "transcript" /\ msg.isStr

\* What a transcript message with trimmed text t does to meeting m: t goes
\* to the end of the buffer, and to the end of the queue exactly when it has
\* the minimum sentence length; a shorter one changes no queue and no task.
TranscriptEffect(m, t) ==
    /\ Has(meeting_transcript_buffers, m)
    /\ Has(meeting_transcript_buffers', m)
    /\ meeting_transcript_buffers'[m] = Append(meeting_transcript_buffers[m], t)
    /\ IF Len(t) >= MIN_SENTENCE_LEN_FOR_QUEUE
       THEN QueueOf(m)' = Append(QueueOf(m), t)
       ELSE UNCHANGED <<coaching_queue, lists, coaching_tasks, tasks>>

\* C20 (as claimed): every transcript message whose trimmed text is not
\* empty is appended to the meeting's buffer, and enqueued if and only if
\* it has at least MIN_SENTENCE_LEN_FOR_QUEUE characters; a shorter one
\* starts no worker.
C20_Transcript ==
    [][\A c \in Conns, msg \in Msgs :
          /\ IsTranscript(msg) /\ Strip(msg.text) # EmptyStr
          /\ RecvTranscript(c, msg) \/ RecvRaises(c, msg)
          => TranscriptEffect(handler[c].m, Strip(msg.text))]_vars

\* ============================================================ the parser
\* gemini_coach.py, parse_structured_feedback.  Strings are sequences of
\* characters, so that strip, lower, partition and `in` are computed.

\* The literals of the parser.
k_filler_words_current == <<"f", "i", "l", "l", "e", "r", " ", "w", "o", "r", "d", "s", " ", "(", "c", "u", "r", "r", "e", "n", "t", ")">>
k_filler_words == <<"f", "i", "l", "l", "e", "r", " ", "w", "o", "r", "d", "s">>
k_filler == <<"f", "i", "l", "l", "e", "r">>
k_breakdown == <<"b", "r", "e", "a", "k", "d", "o", "w", "n">>
k_filler_count_total == <<"f", "i", "l", "l", "e", "r", " ", "c", "o", "u", "n", "t", " ", "(", "t", "o", "t", "a", "l", ")">>
k_filler_count == <<"f", "i", "l", "l", "e", "r", " ", "c", "o", "u", "n", "t">>
k_filler_breakdown == <<"f", "i", "l", "l", "e", "r", " ", "b", "r", "e", "a", "k", "d", "o", "w", "n">>
k_improved_sentence == <<"i", "m", "p", "r", "o", "v", "e", "d", " ", "s", "e", "n", "t", "e", "n", "c", "e">>
k_pace == <<"p", "a", "c", "e">>
k_volume == <<"v", "o", "l", "u", "m", "e">>
k_engagement_alert == <<"e", "n", "g", "a", "g", "e", "m", "e", "n", "t", " ", "a", "l", "e", "r", "t">>
k_suggestion == <<"s", "u", "g", "g", "e", "s", "t", "i", "o", "n">>
k_language == <<"l", "a", "n", "g", "u", "a", "g", "e">>
k_non_english == <<"n", "o", "n", "-", "e", "n", "g", "l", "i", "s", "h">>
k_non_english_us == <<"n", "o", "n", "_", "e", "n", "g", "l", "i", "s", "h">>
k_non_english_sp == <<"n", "o", "n", " ", "e", "n", "g", "l", "i", "s", "h">>
t_none == <<"n", "o", "n", "e">>
t_na == <<"n", "/", "a">>
t_dash == <<"-">>
t_good == <<"g", "o", "o", "d">>
t_low == <<"l", "o", "w">>
t_english == <<"e", "n", "g", "l", "i", "s", "h">>

\* The labels of the response format, as the prompt asks for them.
FillerWordsLabel == <<"F", "i", "l", "l", "e", "r", " ", "W", "o", "r", "d", "s", " ", "(", "C", "u", "r", "r", "e", "n", "t", ")">>
FillerCountLabel == <<"F", "i", "l", "l", "e", "r", " ", "C", "o", "u", "n", "t", " ", "(", "T", "o", "t", "a", "l", ")">>
FillerBreakdownLabel == <<"F", "i", "l", "l", "e", "r", " ", "B", "r", "e", "a", "k", "d", "o", "w", "n">>
ImprovedSentenceLabel == <<"I", "m", "p", "r", "o", "v", "e", "d", " ", "S", "e", "n", "t", "e", "n", "c", "e">>
PaceLabel == <<"P", "a", "c", "e">>
VolumeLabel == <<"V", "o", "l", "u", "m", "e">>
LanguageLabel == <<"L", "a", "n", "g", "u", "a", "g", "e">>
EngagementAlertLabel == <<"E", "n", "g", "a", "g", "e", "m", "e", "n", "t", " ", "A", "l", "e", "r", "t">>
SuggestionLabel == <<"S", "u", "g", "g", "e", "s", "t", "i", "o", "n">>
\* The label of the older response format, which main.py still looks for.
FillerWordsPlainLabel == <<"F", "i", "l", "l", "e", "r", " ", "w", "o", "r", "d", "s">>

\* Values a response line can carry.
v_None == <<"N", "o", "n", "e">>
v_NA == <<"N", "/", "A">>
v_dash == <<"-">>
v_NONE == <<"N", "O", "N", "E">>
v_um == <<"u", "m">>
v_3 == <<"3">>
v_um_2 == <<"u", "m", ":", " ", "2">>
v_Hi == <<"H", "i", " ", "a", "l", "l", ".">>
v_fast == <<"t", "o", "o", " ", "f", "a", "s", "t">>
v_Good == <<"G", "o", "o", "d">>
v_Low == <<"L", "o", "w">>
v_English == <<"E", "n", "g", "l", "i", "s", "h">>
v_NonEnglish == <<"N", "o", "n", "-", "E", "n", "g", "l", "i", "s", "h", " ", "d", "e", "t", "e", "c", "t", "e", "d">>
v_Check == <<"C", "h", "e", "c", "k", " ", "i", "n">>
v_Pause == <<"P", "a", "u", "s", "e">>
v_OK == <<"O", "K">>

\* str.lower()
UpperCase == <<"A","B","C","D","E","F","G","H","I","J","K","L","M",
               "N","O","P","Q","R","S","T","U","V","W","X","Y","Z">>
LowerCase == <<"a","b","c","d","e","f","g","h","i","j","k","l","m",
               "n","o","p","q","r","s","t","u","v","w","x","y","z">>
LowerChar(ch) ==
    IF \E i \in 1..Len(UpperCase) : UpperCase[i] = ch
    THEN LowerCase[CHOOSE i \in 1..Len(UpperCase) : UpperCase[i] = ch]
    ELSE ch
Lower(x) == [i \in 1..Len(x) |-> LowerChar(x[i])]

\* `sub in x` for strings.
Contains(x, sub) ==
    \E i \in 1..(Len(x) - Len(sub) + 1) : SubSeq(x, i, i + Len(sub) - 1) = sub

\* line.partition(":"): the text before the first colon and the text after it.
HasColon(line) == \E i \in 1..Len(line) : line[i] = ":"
ColonAt(line) == CHOOSE i \in 1..Len(line) : line[i] = ":" /\ \A j \in 1..(i - 1) : line[j] # ":"
Before(line) == SubSeq(line, 1, ColonAt(line) - 1)
After(line) == SubSeq(line, ColonAt(line) + 1, Len(line))

\* None, and a str.
None == [some |-> FALSE, v |-> <<>>]
Some(x) == [some |-> TRUE, v |-> x]
\* Truthiness: not None and not "".
Truthy(o) == o.some /\ o.v # <<>>

\* `value if value and value.lower() not in ("none", "n/a", "-") else None`
Normalized(value) ==
    IF value # <<>> /\ Lower(value) \notin {t_none, t_na, t_dash} THEN Some(value) ELSE None

\* `value if value else None`
ValueOrNone(value) == IF value # <<>> THEN Some(value) ELSE None

\* field_map = {}: .get of a key never set is None.
EmptyFieldMap ==
    [fillers |-> None, filler_breakdown |-> None, filler_count |-> None,
     improved_sentence |-> None, pace |-> None, volume |-> None,
     engagement_alert |-> None, suggestion |-> None, language_detected |-> None,
     non_english_message |-> None, non_english_duration |-> None]

\* `"filler" in key and field_map.get("fillers") is None`
CatchesFiller(key, fm) == Contains(key, k_filler) /\ ~fm.fillers.some

\* The body of `for line in lines`: the if/elif chain on the lowered key.
ParseLine(fm, line) ==
    IF ~HasColon(line) THEN fm
    ELSE
    LET key == Lower(Strip(Before(line)))
        value == Strip(After(line))
        v == Lower(value)
    IN  IF key \in {k_filler_words_current, k_filler_words}
            THEN [fm EXCEPT !.fillers = Normalized(value)]
        ELSE IF Contains(key, k_filler) /\ Contains(key, k_breakdown)
            THEN [fm EXCEPT !.filler_breakdown = Normalized(value)]
        ELSE IF CatchesFiller(key, fm)
            THEN [fm EXCEPT !.fillers = Normalized(value)]
        ELSE IF key \in {k_filler_count_total, k_filler_count}
            THEN [fm EXCEPT !.filler_count = Some(value)]
        ELSE IF key = k_filler_breakdown
            THEN [fm EXCEPT !.filler_breakdown = Normalized(value)]
        ELSE IF key = k_improved_sentence
            THEN [fm EXCEPT !.improved_sentence = Normalized(value)]
        ELSE IF key = k_pace
            THEN [fm EXCEPT !.pace =
                    IF Contains(v, t_good) \/ v \in {t_none, t_na, t_dash, <<>>}
                    THEN Some(t_good) ELSE Some(value)]
        ELSE IF key = k_volume
            THEN [fm EXCEPT !.volume =
                    IF Contains(v, t_low) THEN Some(t_low) ELSE Some(t_good)]
        ELSE IF key = k_engagement_alert
            THEN [fm EXCEPT !.engagement_alert = Normalized(value)]
        ELSE IF key = k_suggestion
            THEN [fm EXCEPT !.suggestion = ValueOrNone(value)]
        ELSE IF key = k_language
            THEN IF Contains(v, k_non_english) \/ Contains(v, k_non_english_sp)
                 THEN [fm EXCEPT !.language_detected = Some(k_non_english_us),
                                 !.non_english_message = Some(value)]
                 ELSE [fm EXCEPT !.language_detected = Some(t_english)]
        ELSE IF Contains(key, k_non_english) \/ Contains(key, k_non_english_us)
            THEN [fm EXCEPT !.non_english_duration = ValueOrNone(value)]
        ELSE fm

\* The loop over the lines, first to last.
RECURSIVE FieldMap(_, _)
FieldMap(fm, lines) ==
    IF lines = <<>> THEN fm ELSE FieldMap(ParseLine(fm, Head(lines)), Tail(lines))

\* The if/elif chain that sets result["feedback_type"].
FeedbackTypeFillersFirst(r) ==
    IF Truthy(r.fillers) THEN "filler_words"
    ELSE IF Truthy(r.engagement_alert) THEN "engagement"
    ELSE IF r.language_detected = Some(k_non_english_us) THEN "other_language"
    ELSE IF (Truthy(r.pace) /\ r.pace # Some(t_good))
            \/ (Truthy(r.volume) /\ r.volume = Some(t_low)) THEN "pace_volume"
    ELSE IF Truthy(r.improved_sentence) THEN "suggested_sentence"
    ELSE "positive"
FeedbackType(r) ==
    IF Truthy(r.engagement_alert) THEN "engagement"
    ELSE IF r.language_detected = Some(k_non_english_us) THEN "other_language"
    ELSE IF (Truthy(r.pace) /\ r.pace # Some(t_good))
            \/ (Truthy(r.volume) /\ r.volume = Some(t_low)) THEN "pace_volume"
    ELSE IF Truthy(r.improved_sentence) THEN "suggested_sentence"
    ELSE IF Truthy(r.fillers) THEN "filler_words"
    ELSE "positive"

\* parse_structured_feedback(raw), raw given as its lines (raw.strip()
\* removes only what key.strip() and value.strip() remove again; an empty or
\* blank raw has no line and returns the defaults).
parse_structured_feedback(lines) ==
    LET fm == FieldMap(EmptyFieldMap, lines)
        r == [improved_sentence |-> fm.improved_sentence,
              fillers |-> fm.fillers,
              filler_breakdown |-> fm.filler_breakdown,
              pace |-> fm.pace,
              volume |-> fm.volume,
              engagement_alert |-> fm.engagement_alert,
              suggestion |-> fm.suggestion,
              language_detected |-> fm.language_detected,
              non_english_message |-> fm.non_english_message]
    IN  r @@ [feedback_type |-> FeedbackType(r)]

\* A response line `label: value`.
\* main.py, _parse_fillers_from_feedback and the payload of _send_feedback.
p_filler_words == <<"F", "i", "l", "l", "e", "r", " ", "w", "o", "r", "d", "s", ":">>

\* str.startswith
StartsWith(x, prefix) ==
    /\ Len(prefix) <= Len(x)
    /\ SubSeq(x, 1, Len(prefix)) = prefix

\* str.index, counted from 1: the first place where sub occurs in x.
Index(x, sub) ==
    CHOOSE i \in 1..(Len(x) - Len(sub) + 1) :
        /\ SubSeq(x, i, i + Len(sub) - 1) = sub
        /\ \A j \in 1..(i - 1) : SubSeq(x, j, j + Len(sub) - 1) # sub

\* _parse_fillers_from_feedback(feedback), feedback given as its lines: the
\* rest of the first line after the prefix, as it stands, or None.
parse_fillers_from_feedback(lines) ==
    IF lines = <<>> THEN None
    ELSE
    LET first_line == Strip(lines[1])
        prefix == Lower(p_filler_words)
    IN  IF ~StartsWith(Lower(first_line), prefix) THEN None
        ELSE IF Contains(Lower(first_line), prefix)
        THEN ValueOrNone(Strip(SubSeq(first_line,
                                      Index(Lower(first_line), prefix) + Len(p_filler_words),
                                      Len(first_line))))
        ELSE None

\* `a or b` on optional strings.
Or(a, b) == IF Truthy(a) THEN a ELSE b

\* The payload _send_feedback builds for a non-empty feedback text.
SendFeedbackPayload(feedback, structured, transcript, fillers) ==
    [feedback |-> feedback,
     feedbackType |-> structured.feedback_type,
     improved_sentence |-> structured.improved_sentence,
     fillers |-> Or(structured.fillers, fillers),
     filler_breakdown |-> structured.filler_breakdown,
     pace |-> structured.pace,
     volume |-> structured.volume,
     engagement_alert |-> structured.engagement_alert,
     suggestion |-> structured.suggestion,
     language_detected |-> structured.language_detected,
     non_english_message |-> structured.non_english_message,
     transcript |-> ValueOrNone(transcript)]

Line(label, value) == label \o <<":", " ">> \o value

\* The values that stand for nothing, the empty one among them.
AbsentValues == {v_None, v_NA, v_dash, v_NONE, <<>>}

OptionalLabels ==
    {FillerWordsLabel, FillerBreakdownLabel, ImprovedSentenceLabel,
     EngagementAlertLabel, SuggestionLabel}

\* The lines the responses are made of.
Lines ==
    {Line(l, v) : l \in OptionalLabels, v \in AbsentValues}
    \cup {Line(FillerWordsLabel, v_um), Line(FillerBreakdownLabel, v_um_2),
          Line(ImprovedSentenceLabel, v_Hi), Line(EngagementAlertLabel, v_Check),
          Line(SuggestionLabel, v_Pause), Line(FillerCountLabel, v_3),
          Line(PaceLabel, v_Good), Line(PaceLabel, v_fast),
          Line(VolumeLabel, v_Good), Line(VolumeLabel, v_Low),
          Line(LanguageLabel, v_English), Line(LanguageLabel, v_NonEnglish),
          Line(FillerWordsPlainLabel, v_None), Line(FillerWordsPlainLabel, v_um),
          v_OK}

MaxLines == 3

LabelOf(line) == IF HasColon(line) THEN Before(line) ELSE line

\* The responses: up to MaxLines lines, no label twice.
Responses ==
    {x \in UNION {[1..n -> Lines] : n \in 0..MaxLines} :
        \A i \in 1..Len(x), j \in 1..Len(x) : i # j => LabelOf(x[i]) # LabelOf(x[j])}

\* The parser on its own: a response is drawn and parsed.
InitParse ==
    /\ ServerInit /\ has_gemini
    /\ raw \in Responses
    /\ result = <<>>
    /\ now = 0
    /\ calls = <<>>

Parse ==
    /\ result = <<>>
    /\ result' = <<parse_structured_feedback(raw)>>
    /\ UNCHANGED <<raw, now, calls, vars>>

\* main.py 160-165 with _send_feedback 98-115: the fallback filler phrase is
\* taken from the text and the envelope is built from the parsed record.
SendFeedback ==
    /\ Len(result) = 1
    /\ raw # <<>>
    /\ result' = Append(result,
                    SendFeedbackPayload(raw, parse_structured_feedback(raw), Strip(Hello),
                                        parse_fillers_from_feedback(raw)))
    /\ UNCHANGED <<raw, now, calls, vars>>

NextParse == Parse \/ SendFeedback

SpecParse == InitParse /\ [][NextParse]_<<fvars, vars>>

\* ------------------------------------------------------- parser claims
Parsed == result # <<>>

Reordered(x, f) == [i \in 1..Len(x) |-> x[f[i]]]

\* C17 (as claimed): every reordering of the lines of a response parses to
\* the same category and the same filler list.
C17_OrderIndependent ==
    Parsed =>
        \A f \in Permutations(1..Len(raw)) :
            LET other == parse_structured_feedback(Reordered(raw, f))
            IN  /\ other.feedback_type = result[1].feedback_type
                /\ other.fillers = result[1].fillers

\* The field of the result a label is for.
FieldOf(r, label) ==
    CASE label = FillerWordsLabel -> r.fillers
      [] label = FillerBreakdownLabel -> r.filler_breakdown
      [] label = ImprovedSentenceLabel -> r.improved_sentence
      [] label = EngagementAlertLabel -> r.engagement_alert
      [] label = SuggestionLabel -> r.suggestion

\* The line's value is none, n/a or - in any letter case, or empty.
SaysNothing(line) == Lower(Strip(After(line))) \in {t_none, t_na, t_dash, <<>>}

\* C18 (as claimed): a line of an optional field whose value is none, n/a,
\* - or empty leaves that field absent, and a response all of whose lines
\* are such lines has the category positive.
C18_NoneIsAbsent ==
    Parsed =>
        /\ \A i \in 1..Len(raw) :
              /\ HasColon(raw[i]) /\ LabelOf(raw[i]) \in OptionalLabels
              /\ SaysNothing(raw[i])
              => ~FieldOf(result[1], LabelOf(raw[i])).some
        /\ (\A i \in 1..Len(raw) : HasColon(raw[i]) /\ SaysNothing(raw[i]))
              => result[1].feedback_type = "positive"

\* ================================================ _process_transcript_sync
\* main.py, _process_transcript_sync called on its own, as the queue
\* processor and the audio path call it, with a clock beside it.
MaxTime == 2
MaxCalls == 2

InitSync ==
    /\ ServerInit
    /\ raw = <<>>
    /\ result = <<>>
    /\ now = 0
    /\ calls = <<>>

\* Time passes between two calls.
Tick ==
    /\ now < MaxTime
    /\ now' = now + 1
    /\ UNCHANGED <<raw, result, calls, vars>>

\* One call _process_transcript_sync(m, text) with the outcome r: it strips
\* the text, returns None for an empty one, and otherwise returns what
\* analyze_transcript does, which calls the model when there is an API key.
ProcessTranscriptSync(m, text, r) ==
    /\ Len(calls) < MaxCalls
    /\ r \in ProcessTranscriptSyncOutcomes(text, has_gemini)
    /\ calls' = Append(calls, [at |-> now, m |-> m, text |-> text,
                               called |-> has_gemini /\ CallsOracle(text),
                               res |-> r])
    /\ UNCHANGED <<raw, result, now, vars>>

NextSync ==
    \/ Tick
    \/ \E m \in Meetings, text \in {Blank, Short, Hello}, r \in AnalyzeOutcomes(TRUE) :
          ProcessTranscriptSync(m, text, r)

SpecSync == InitSync /\ [][NextSync]_<<fvars, vars>>

\* C19 (as claimed): of two requests for the same meeting with no time
\* between them, both with text of the minimum length, the first of which
\* called the oracle and got a result, the second is skipped without a call.
C19_Cooldown ==
    \A i \in 1..Len(calls), j \in 1..Len(calls) :
        /\ i < j
        /\ calls[i].m = calls[j].m /\ calls[i].at = calls[j].at
        /\ Len(Strip(calls[i].text)) >= MIN_TRANSCRIPT_LEN_FOR_GEMINI
        /\ Len(Strip(calls[j].text)) >= MIN_TRANSCRIPT_LEN_FOR_GEMINI
        /\ calls[i].called /\ calls[i].res.k = "ok"
        => ~calls[j].called

\* C19 (as amended): every request whose trimmed text is not empty calls the
\* oracle (given an API key), whatever the time since the meeting's earlier
\* calls and whatever their outcome; a request is skipped, with None and
\* without a call, only when its trimmed text is empty.
C19_NoCooldown ==
    \A j \in 1..Len(calls) :
        /\ calls[j].called <=> (has_gemini /\ Strip(calls[j].text) # EmptyStr)
        /\ Strip(calls[j].text) = EmptyStr => calls[j].res = NoneRes
        /\ calls[j].res.k = "ok" => calls[j].called

\* C19 witness: two requests for one meeting with no time between them, the
\* first successful, and both called the oracle.
C19_Witness ==
    /\ Len(calls) = 2
    /\ calls[1].m = calls[2].m /\ calls[1].at = calls[2].at
    /\ calls[1].called /\ calls[1].res.k = "ok"
    /\ calls[2].called

\* ---------------------------------------------------------------------------
\* Draining of the queue (main.py 147-170, 214-229, 292-305).

\* x is an initial part of y.
IsPrefix(x, y) ==
    /\ Len(x) <= Len(y)
    /\ x = SubSeq(y, 1, Len(x))

\* A step keeps the sentences of meeting m: of those waiting, the first k are
\* submitted to the oracle by the step, in their order and each once, and the
\* others still wait, ahead of any sentence the step enqueues.
KeepsSentences(m) ==
    LET q == QueueOf(m)
    IN  \E k \in 0..Len(q) :
            /\ IsPrefix(SubSeq(q, k + 1, Len(q)), QueueOf(m)')
            /\ k > 0 => CallsOf(ev'[m]) = CallsOf(ev[m]) \o SubSeq(q, 1, k)

\* C21: while a meeting keeps a connected endpoint, no step loses one of its
\* enqueued sentences (each stays waiting until it is submitted, once), the
\* worker stays registered as long as a sentence waits or is in its call, and
\* a meeting without an active worker has an empty queue and no handle.
C21_Drains ==
    [][\A m \in Meetings :
          Snapshot(active_connections, m) # {} /\ Snapshot(active_connections', m) # {} =>
              /\ KeepsSentences(m)
              /\ QueueOf(m)' # <<>> => ActiveWorkers(m)' # {}
              /\ ActiveWorkers(m)' = {} =>
                    QueueOf(m)' = <<>> /\ ~Has(coaching_tasks', m)]_vars

\* The finally block run by an endpoint of meeting m.
TeardownOf(m) ==
    \E c \in Conns :
        /\ c \in Snapshot(active_connections, m)
        /\ c \notin Snapshot(active_connections', m)

\* The same, for the steps that are not the finally block of an endpoint of
\* the meeting.
C21_DrainsButTeardown ==
    [][\A m \in Meetings :
          /\ Snapshot(active_connections, m) # {} /\ Snapshot(active_connections', m) # {}
          /\ ~TeardownOf(m)
          =>  /\ KeepsSentences(m)
              /\ QueueOf(m)' # <<>> => ActiveWorkers(m)' # {}
              /\ ActiveWorkers(m)' = {} =>
                    QueueOf(m)' = <<>> /\ ~Has(coaching_tasks', m)]_vars

\* ---------------------------------------------------------------------------
\* The buffer of a connected endpoint (main.py 203-224, 288-305).

\* Endpoint c is registered for its meeting and waits in its receive loop.
Receiving(c) ==
    /\ handler[c].pc = "recv"
    /\ c \in Snapshot(active_connections, handler[c].m)

\* C24: while an endpoint is registered and in its receive loop, the
\* transcript buffer of its meeting exists, so that a transcript message is
\* accepted (RecvTranscript is enabled for it) whatever the other endpoints
\* of the meeting have done.
C24_BufferExists ==
    \A c \in Conns :
        Receiving(c) => Has(meeting_transcript_buffers, handler[c].m)

\* The same for an endpoint of a meeting none of whose endpoints has yet
\* left: no endpoint of the meeting is closed or in its teardown.
C24_BufferExistsBeforeTeardown ==
    \A c \in Conns :
        /\ Receiving(c)
        /\ \A d \in Conns : handler[d].m = handler[c].m => handler[d].pc \notin {"closed", "await_task"}
        => Has(meeting_transcript_buffers, handler[c].m)

\* ---------------------------------------------------------------------------
\* No state of a meeting outlives it (main.py 147-170, 183-204, 292-305).

\* A handler is between the statements of its finally block: the only await
\* there is `await task`, after every dict has been updated.
MidTeardown == \E c \in Conns : handler[c].pc = "await_task"

\* Meeting m has state of its own: a buffer, a queue or a worker handle.
HasSessionState(m) ==
    \/ Has(meeting_transcript_buffers, m)
    \/ Has(coaching_queue, m)
    \/ Has(coaching_tasks, m)

\* C25: every meeting with a transcript buffer, a pending queue or a
\* registered worker handle has a registered endpoint, and no key of the
\* endpoint map has an empty set of endpoints. The teardown updates the four
\* dicts with no await between them, so this holds in every state, those
\* with a handler awaiting its cancelled task included.
C25_NoOrphanState ==
    /\ \A m \in Meetings : HasSessionState(m) => Snapshot(active_connections, m) # {}
    /\ \A m \in DOMAIN active_connections : active_connections[m] # {}

\* C25 witness: the last endpoint of a meeting whose buffer had text has
\* gone, no handler is mid-teardown, and nothing of the meeting is left,
\* while the other meeting has an endpoint, a buffer, a queue and a worker.
C25_Witness ==
    /\ ~MidTeardown
    /\ \E m \in Meetings :
          /\ discarded[m]
          /\ \E c \in closed : handler[c].m = m
          /\ ~Has(active_connections, m)
          /\ ~HasSessionState(m)
          /\ \E n \in Meetings \ {m} :
                /\ Snapshot(active_connections, n) # {}
                /\ Has(meeting_transcript_buffers, n)
                /\ Has(coaching_queue, n)
                /\ Has(coaching_tasks, n)

\* ---------------------------------------------------------------------------
\* The filler list of the record and of the envelope
\* (gemini_coach.py 143-152, 192-193; main.py 91-128).

\* The lines of x labelled `filler words` or `filler words (current)`.
FillerWordsLines(x) ==
    {i \in 1..Len(x) :
        /\ HasColon(x[i])
        /\ Lower(Strip(LabelOf(x[i]))) \in {k_filler_words_current, k_filler_words}}

\* The last of a non-empty set of line numbers.
Last(I) == CHOOSE i \in I : \A j \in I : j <= i

\* C22 (as claimed): the filler list is that of the last line labelled
\* `filler words` or `filler words (current)`, absent when there is none or
\* when it carries an absent token, whatever the other lines are; and with an
\* absent filler list the category is not filler_words.
C22_FillerListSource ==
    Parsed =>
        LET I == FillerWordsLines(raw)
        IN  /\ result[1].fillers =
                  IF I = {} THEN None ELSE Normalized(Strip(After(raw[Last(I)])))
            /\ (I = {} \/ \A i \in I : SaysNothing(raw[i]))
                  => result[1].feedback_type # "filler_words"

\* The same for the responses without a filler-count line.
C22_FillerListSourceNoCount ==
    Parsed /\ (\A i \in 1..Len(raw) : LabelOf(raw[i]) # FillerCountLabel) =>
        LET I == FillerWordsLines(raw)
        IN  /\ result[1].fillers =
                  IF I = {} THEN None ELSE Normalized(Strip(After(raw[Last(I)])))
            /\ (I = {} \/ \A i \in I : SaysNothing(raw[i]))
                  => result[1].feedback_type # "filler_words"

\* The envelope has been built.
Sent == Len(result) = 2

\* C23 (as claimed): the envelope's fillers field is the record's filler
\* list, present exactly when that is present, and its feedbackType is the
\* record's; so no envelope carries a filler value while the record's filler
\* list is absent or its category is positive.
C23_EnvelopeAgrees ==
    Sent =>
        /\ result[2].fillers = result[1].fillers
        /\ result[2].feedbackType = result[1].feedback_type
        /\ result[2].fillers.some =>
              result[1].fillers.some /\ result[1].feedback_type # "positive"

\* The same for the texts that do not begin with `Filler words:`.
C23_EnvelopeAgreesNoPrefix ==
    Sent /\ ~StartsWith(Lower(Strip(raw[1])), Lower(p_filler_words)) =>
        /\ result[2].fillers = result[1].fillers
        /\ result[2].feedbackType = result[1].feedback_type
        /\ result[2].fillers.some =>
              result[1].fillers.some /\ result[1].feedback_type # "positive"
====
